---- MODULE Spec2Model ----
(***************************************************************************)
(* Model of ggwalker.py, the Gopher and Gemini walker: the interactive     *)
(* navigation engine (class walker) over a fixed local file tree, under    *)
(* Spec; the link functions and the two parsers applied to bounded sets of *)
(* arguments, under ParseSpec; and the offline walker (offline_walk) over  *)
(* the sites of that file tree, under WalkSpec.                            *)
(*                                                                         *)
(* A Python string is modelled as a sequence of tokens.  A token is an     *)
(* atomic piece of text: the path separator "/", the scheme separator      *)
(* "://", a scheme or host name, a file stem, an extension such as ".gmi", *)
(* a blank " ", a marker such as "=>".  The tokens are cut where the code   *)
(* cuts its strings, so every startswith, endswith, strip and replace of   *)
(* the code falls on token boundaries.                                     *)
(***************************************************************************)
EXTENDS Integers, Sequences, FiniteSets, TLC

(***************************************************************************)
(* Bounds of the model.                                                    *)
(***************************************************************************)
\* longest history the commands are allowed to build
MaxStack == 3
\* longest list of bookmarked paths the add command is allowed to build
MaxPaths == 2
\* longest list of bookmarked site URLs the add command is allowed to build
MaxUrls == 1
\* most lines of a Gopher map handed to the parser taken alone
MaxLines == 2
\* most lines of a Gemini file handed to the parser taken alone
MaxGemLines == 3
\* the number of paths given to offline_walk is at most MaxRoots
MaxRoots == 2
\* the calls of extract_links nest at most MaxDepth deep
MaxDepth == 5

(***************************************************************************)
(* String helpers (str methods and os.path functions the code calls).      *)
(***************************************************************************)
sep == "/"

\* the Gemini fence marker, three backquotes, as one token
fence == "[fence]"

\* the token for the newline that ends a line read from a file
newline == "[nl]"

Min(a, b) == IF a < b THEN a ELSE b

\* s[:n] for n >= 0
Slice(s, n) == SubSeq(s, 1, Min(n, Len(s)))

\* s[n:] for n >= 0
Drop(s, n) == SubSeq(s, n + 1, Len(s))

\* list[i] with Python's negative indices; IndexError has its own value
IndexError == <<"!IndexError">>

Idx(s, i) ==
    IF 0 <= i /\ i < Len(s) THEN s[i + 1]
    ELSE IF i < 0 /\ -i <= Len(s) THEN s[Len(s) + i + 1]
    ELSE IndexError

\* s.startswith(p)
StartsWith(s, p) == Len(p) <= Len(s) /\ SubSeq(s, 1, Len(p)) = p

\* s.endswith(t) for a one-token suffix t
EndsWith(s, t) == s # <<>> /\ s[Len(s)] = t

\* x in list
InList(x, l) == \E i \in 1..Len(l) : l[i] = x

RECURSIVE LStrip(_, _)
\* s.lstrip(chars)
LStrip(s, chars) ==
    IF s # <<>> /\ s[1] \in chars THEN LStrip(Tail(s), chars) ELSE s

RECURSIVE RStrip(_, _)
\* s.rstrip(chars)
RStrip(s, chars) ==
    IF s # <<>> /\ s[Len(s)] \in chars THEN RStrip(SubSeq(s, 1, Len(s) - 1), chars) ELSE s

\* s.strip(chars)
Strip(s, chars) == LStrip(RStrip(s, chars), chars)

\* the positions at which old occurs in s
Occurrences(s, old) ==
    {i \in 1..(Len(s) - Len(old) + 1) : SubSeq(s, i, i + Len(old) - 1) = old}

\* s.replace(old, new, 1)
Replace1(s, old, new) ==
    IF old = <<>> THEN new \o s
    ELSE IF Occurrences(s, old) = {} THEN s
    ELSE LET i == CHOOSE j \in Occurrences(s, old) : \A k \in Occurrences(s, old) : j <= k
         IN SubSeq(s, 1, i - 1) \o new \o Drop(s, i + Len(old) - 1)

\* the letters-only tokens that can stand before "://"
AlphaTokens == {"gopher", "gemini", "https"}

\* re.search(r'^[a-zA-Z]+://', s)
IsURL(s) == Len(s) >= 2 /\ s[1] \in AlphaTokens /\ s[2] = "://"

\* os.path.join(a, b)
PathJoin(a, b) ==
    IF b # <<>> /\ b[1] = sep THEN b
    ELSE IF a = <<>> \/ EndsWith(a, sep) THEN a \o b
    ELSE a \o <<sep>> \o b

\* the positions of the separators of p
SepPositions(p) == {i \in 1..Len(p) : p[i] = sep}

\* os.path.dirname(p)
PathDirname(p) ==
    IF SepPositions(p) = {} THEN <<>>
    ELSE LET i == CHOOSE j \in SepPositions(p) : \A k \in SepPositions(p) : k <= j
             head == SubSeq(p, 1, i)
         IN IF RStrip(head, {sep}) = <<>> THEN head ELSE RStrip(head, {sep})

\* the one-digit numbers, "0" first
Digits == <<"0", "1", "2", "3", "4", "5", "6", "7", "8", "9">>

\* str.isdigit() for the one-token numbers the commands are given
IsDigit(s) == Len(s) = 1 /\ \E i \in 1..Len(Digits) : Digits[i] = s[1]

\* int(s) for such a number
ToInt(s) == (CHOOSE i \in 1..Len(Digits) : Digits[i] = s[1]) - 1

(***************************************************************************)
(* The file tree the walker runs on.  It does not change while the walker  *)
(* runs.  The working directory of the process holds none of the names of  *)
(* the tree, so a relative path names nothing.                             *)
(***************************************************************************)
RECURSIVE Components(_, _, _)
\* the components of path p: acc are the ones closed so far, cur the open one
Components(p, acc, cur) ==
    IF p = <<>> THEN (IF cur = <<>> THEN acc ELSE Append(acc, cur))
    ELSE IF p[1] = sep
         THEN Components(Tail(p), IF cur = <<>> THEN acc ELSE Append(acc, cur), <<>>)
         ELSE Components(Tail(p), acc, Append(cur, p[1]))

RECURSIVE Collapse(_, _)
\* "." and ".." resolved, as the kernel does on lookup
Collapse(cs, acc) ==
    IF cs = <<>> THEN acc
    ELSE IF cs[1] = <<".">> THEN Collapse(Tail(cs), acc)
    ELSE IF cs[1] = <<"..">>
         THEN Collapse(Tail(cs), IF acc = <<>> THEN acc ELSE SubSeq(acc, 1, Len(acc) - 1))
         ELSE Collapse(Tail(cs), Append(acc, cs[1]))

\* the canonical form of an absolute path: its components
Canon(p) == Collapse(Components(p, <<>>, <<>>), <<>>)

IsAbsolute(p) == p # <<>> /\ p[1] = sep

S1 == <<"/", "s1">>
S2 == <<"/", "s2">>
C1 == <<"/", "c1">>
C2 == <<"/", "c2">>
C3 == <<"/", "c3">>

\* the directories of the tree, as component lists
Dirs ==
    { <<>>,
      << <<"s1">> >>,
      << <<"s1">>, <<"pics">> >>,
      << <<"s1">>, <<"docs">> >>,
      << <<"s2">> >>,
      << <<"s2">>, <<"old">> >>,
      << <<"c1">> >>,
      << <<"c2">> >>,
      << <<"c2">>, <<"sub">> >>,
      << <<"c3">> >> }

\* the regular files of the tree, each with its lines
\* a Gopher line is the list of its tab-separated fields, the first field
\* starting with the item character; a Gemini line is one token sequence
FileLines ==
    [ p \in { << <<"s1">>, <<"gophermap">> >>,
              << <<"s1">>, <<"index", ".gmi">> >>,
              << <<"s1">>, <<"about", ".txt">> >>,
              << <<"s1">>, <<"pics">>, <<"a", ".gif">> >>,
              << <<"s1">>, <<"pics">>, <<"n", ".gmi">> >>,
              << <<"s1">>, <<"docs">>, <<"data">> >>,
              << <<"s2">>, <<"index", ".gmi">> >>,
              << <<"s2">>, <<"index", ".gemini">> >>,
              << <<"s2">>, <<"page", ".gmi">> >>,
              << <<"s2">>, <<"old">>, <<"index", ".gemini">> >>,
              << <<"c1">>, <<"index", ".gmi">> >>,
              << <<"c1">>, <<"b", ".gmi">> >>,
              << <<"c1">>, <<"lost", ".gmi">> >>,
              << <<"c2">>, <<"index", ".gmi">> >>,
              << <<"c2">>, <<"sub">>, <<"p", ".gmi">> >>,
              << <<"c3">>, <<"index", ".gmi">> >>,
              << <<"c3">>, <<"c", ".gmi">> >> } |->
      CASE p = << <<"s1">>, <<"gophermap">> >> ->
             << << <<"i", "Welcome">>, <<"fake">>, <<"(NULL)">>, <<"0">> >>,
                << <<"0", "About">>, <<"about", ".txt">> >>,
                << <<"1", "Pics">>, <<"pics", "/">> >>,
                << <<"T", "ext without a tab">> >>,
                << <<"1", "Docs">>, <<"/", "docs">>, <<"h1">>, <<"70">> >>,
                << <<"h", "Web">>, <<"URL:", "https", "://", "ex", ".org">> >>,
                << <<"0", "Gone">>, <<"gone", ".txt">> >> >>
        [] p = << <<"s1">>, <<"pics">>, <<"n", ".gmi">> >> ->
             << <<"#", " ", "Notes">>,
                <<"=>", " ", "/", "gophermap", " ", "Home">>,
                <<"=>", " ", "a", ".gif">>,
                <<"=>", " ", "..", "/", "..", "/", "s2", "/", "page", ".gmi", " ", "Up">>,
                <<"=>", " ", "gopher", "://", "h1", "/", "index", ".gmi", " ", "Index">> >>
        [] p = << <<"s2">>, <<"index", ".gmi">> >> ->
             << <<"#", " ", "Capsule">>,
                <<"=>", " ", "page", ".gmi", " ", "Page">>,
                <<fence>>,
                <<"=>", " ", "fenced", ".gmi">>,
                <<fence>>,
                <<"=>", " ", "gopher", "://", "h1", "/", "docs", " ", "Docs">> >>
        [] p = << <<"s2">>, <<"page", ".gmi">> >> ->
             << <<"=>", " ", "/", "index", ".gmi">>,
                <<"=>", " ", "gopher", "://", "h1", "/", "pics", "/", "n", ".gmi">>,
                <<"plain text">>,
                <<"=>">> >>
        [] p = << <<"c1">>, <<"index", ".gmi">> >> ->
             << <<"#", " ", "A">>,
                <<"=>", " ", "b", ".gmi", " ", "B">> >>
        [] p = << <<"c1">>, <<"b", ".gmi">> >> ->
             << <<"=>", " ", "/", "index", ".gmi", " ", "A">> >>
        [] p = << <<"c2">>, <<"index", ".gmi">> >> ->
             << <<"=>", " ", "sub", "/", "p", ".gmi", " ", "P">> >>
        [] p = << <<"c2">>, <<"sub">>, <<"p", ".gmi">> >> ->
             << <<"=>", " ", "..", "/", "index", ".gmi", " ", "Home">> >>
        [] p = << <<"c3">>, <<"index", ".gmi">> >> ->
             << <<"=>", " ", "c", ".gmi">>,
                <<"The", " ", "end">> >>
        [] OTHER -> << >> ]

Files == DOMAIN FileLines

\* os.path.isdir(p)
IsDir(p) == IsAbsolute(p) /\ Canon(p) \in Dirs

\* os.path.isfile(p)
IsFile(p) == IsAbsolute(p) /\ ~EndsWith(p, sep) /\ Canon(p) \in Files

\* os.path.exists(p)
Exists(p) == IsDir(p) \/ IsFile(p)

\* the lines read from file p
ReadLines(p) == FileLines[Canon(p)]

\* the names os.listdir(d) returns, in the order the file system gives them
ListDir(d) ==
    CASE Canon(d) = << <<"s1">>, <<"pics">> >> -> << <<"a", ".gif">>, <<"n", ".gmi">> >>
      [] Canon(d) = << <<"s1">>, <<"docs">> >> -> << <<"data">> >>
      [] OTHER -> << >>


(***************************************************************************)
(* Module-level functions of ggwalker.py.                                  *)
(***************************************************************************)
\* the blank characters str.strip() and \s remove
WS == {" "}

gopherItems ==
    {"0", "1", "2", "3", "4", "5", "6", "7", "8", "9", "+", "T", "g", "I", "h", "s", "i"}

\* gopher_real_link that returns the selector of an h item with its URL: prefix
gopher_real_link_KeepPrefix(item, parts) ==
    LET numParts == Len(parts)
        host == IF numParts < 3 THEN <<>> ELSE Strip(parts[3], WS)
        port == IF numParts < 4 THEN <<>> ELSE Strip(parts[4], WS)
        selector == parts[2]
    IN  IF selector = <<>> THEN IndexError
        ELSE IF selector[1] # sep THEN selector
        ELSE IF host # <<>> /\ port # <<>>
             THEN <<"gopher", "://">> \o host
                  \o (IF port = <<"70">> THEN <<>> ELSE <<":">> \o port) \o selector
             ELSE selector

\* gopher_real_link looking at host and port before the first character of
\* the selector
gopher_real_link_HostFirst(item, parts) ==
    LET numParts == Len(parts)
        host == IF numParts < 3 THEN <<>> ELSE Strip(parts[3], WS)
        port == IF numParts < 4 THEN <<>> ELSE Strip(parts[4], WS)
        isUrl == item = "h" /\ StartsWith(parts[2], <<"URL:">>)
        selector == IF isUrl THEN Strip(Drop(parts[2], 1), WS) ELSE parts[2]
    IN  IF isUrl /\ IsURL(selector) THEN selector
        ELSE IF host # <<>> /\ port # <<>>
             THEN <<"gopher", "://">> \o host
                  \o (IF port = <<"70">> THEN <<>> ELSE <<":">> \o port) \o selector
        ELSE IF selector = <<>> THEN IndexError
        ELSE selector

\* gopher_real_link raises IndexError on selector[0] of an empty selector
gopher_real_link(item, parts) ==
    LET numParts == Len(parts)
        host == IF numParts < 3 THEN <<>> ELSE Strip(parts[3], WS)
        port == IF numParts < 4 THEN <<>> ELSE Strip(parts[4], WS)
        isUrl == item = "h" /\ StartsWith(parts[2], <<"URL:">>)
        selector == IF isUrl THEN Strip(Drop(parts[2], 1), WS) ELSE parts[2]
    IN  IF isUrl /\ IsURL(selector) THEN selector
        ELSE IF selector = <<>> THEN IndexError
        ELSE IF selector[1] # sep THEN selector
        ELSE IF host # <<>> /\ port # <<>>
             THEN <<"gopher", "://">> \o host
                  \o (IF port = <<"70">> THEN <<>> ELSE <<":">> \o port) \o selector
             ELSE selector

\* mimetypes.MimeTypes().guess_type(name)[0], "" for None: the type follows
\* from the extension that ends the name
MimeType(name) ==
    IF name = <<>> THEN ""
    ELSE CASE name[Len(name)] = ".txt"  -> "text/plain"
           [] name[Len(name)] = ".html" -> "text/html"
           [] name[Len(name)] = ".gif"  -> "image/gif"
           [] name[Len(name)] = ".png"  -> "image/png"
           [] name[Len(name)] = ".pdf"  -> "application/pdf"
           [] name[Len(name)] = ".mp3"  -> "audio/mpeg"
           [] OTHER -> ""

\* mime.split('/')[0]
MimeMajor(mime) ==
    CASE mime \in {"text/plain", "text/html"} -> "text"
      [] mime \in {"image/gif", "image/png"} -> "image"
      [] mime = "application/pdf" -> "application"
      [] mime = "audio/mpeg" -> "audio"
      [] OTHER -> ""

gopher_file_item(name) ==
    LET mime == MimeType(name)
    IN  IF mime = ""
        THEN (IF EndsWith(name, "gophermap") \/ EndsWith(name, ".gmi")
                 \/ EndsWith(name, ".gemini")
              THEN "0" ELSE "1")
        ELSE IF mime = "image/gif" THEN "g"
        ELSE IF mime = "text/html" THEN "h"
        ELSE IF MimeMajor(mime) = "text" THEN "0"
        ELSE IF MimeMajor(mime) \in {"application", "video"} THEN "9"
        ELSE IF MimeMajor(mime) = "image" THEN "I"
        ELSE IF MimeMajor(mime) = "audio" THEN "s"
        ELSE "9"

\* link_type that takes only gopher:// and gemini:// targets as not local
link_type_GopherOnly(item0, text) ==
    LET local == ~(StartsWith(text, <<"gopher", "://">>)
                   \/ StartsWith(text, <<"gemini", "://">>))
        item == IF item0 = ">" THEN gopher_file_item(text) ELSE item0
    IN  IF item \in {"0", "4", "5", "6", "9", "g", "I", "h", "s"}
             THEN [local |-> local, kind |-> "file"]
        ELSE IF item = "1" THEN [local |-> local, kind |-> "dir"]
        ELSE IF item = "i" THEN [local |-> TRUE, kind |-> "txt"]
        ELSE IF item = "3" THEN [local |-> local, kind |-> "err"]
        ELSE IF item = "+" THEN [local |-> local, kind |-> "svr"]
        ELSE IF item \in {"8", "9"} THEN [local |-> local, kind |-> "session"]
        ELSE IF item \in {"2", "7"} THEN [local |-> local, kind |-> "search"]
        ELSE [local |-> local, kind |-> "unk"]

\* link_type returns the pair (local, kind)
link_type(item0, text) ==
    LET local == ~IsURL(text)
        item == IF item0 = ">" THEN gopher_file_item(text) ELSE item0
    IN  IF item \in {"0", "4", "5", "6", "9", "g", "I", "h", "s"}
             THEN [local |-> local, kind |-> "file"]
        ELSE IF item = "1" THEN [local |-> local, kind |-> "dir"]
        ELSE IF item = "i" THEN [local |-> TRUE, kind |-> "txt"]
        ELSE IF item = "3" THEN [local |-> local, kind |-> "err"]
        ELSE IF item = "+" THEN [local |-> local, kind |-> "svr"]
        ELSE IF item \in {"8", "9"} THEN [local |-> local, kind |-> "session"]
        ELSE IF item \in {"2", "7"} THEN [local |-> local, kind |-> "search"]
        ELSE [local |-> local, kind |-> "unk"]

(***************************************************************************)
(* The loops of the two parsers, as folds over the lines of the file.      *)
(* The result holds the links appended, the display units printed (one     *)
(* name per print call) and whether an exception ended the loop.           *)
(***************************************************************************)
RECURSIVE GopherLoop(_, _)
GopherLoop(lines, acc) ==
    IF lines = <<>> \/ acc.raised # "" THEN acc
    ELSE LET part == lines[1]
             numParts == Len(part)
             item == IF part[1] = <<>> THEN "" ELSE part[1][1]
             target == gopher_real_link(item, <<Tail(part[1])>> \o Tail(part))
         IN  IF item = "" THEN
                 GopherLoop(Tail(lines), [acc EXCEPT !.units = Append(@, "blank")])
             ELSE IF item = "i" /\ numParts > 1 THEN
                 GopherLoop(Tail(lines), [acc EXCEPT !.units = Append(@, "info")])
             ELSE IF numParts > 1 /\ item \in gopherItems THEN
                 (IF target = IndexError
                  THEN [acc EXCEPT !.raised = "IndexError"]
                  ELSE GopherLoop(Tail(lines),
                          [acc EXCEPT !.links = Append(@, <<item>> \o target),
                                      !.units = Append(@, "link")]))
             ELSE GopherLoop(Tail(lines), [acc EXCEPT !.units = Append(@, "text")])

\* the first whitespace-free run of s: re.split(r'\s+', s, 1)[0]
RECURSIVE FirstWord(_)
FirstWord(s) ==
    IF s = <<>> \/ s[1] \in WS THEN <<>> ELSE <<s[1]>> \o FirstWord(Tail(s))

\* re.search(r'^\s*' + marker, line)
Marked(line, marker) == StartsWith(LStrip(line, WS), <<marker>>)

RECURSIVE GeminiLoop(_, _)
\* GeminiLoop that looks for a link line before it looks at the fence flag
GeminiLoop_LinkInFence(lines, acc) ==
    IF lines = <<>> THEN acc
    ELSE LET line == lines[1]
             blank == IF Strip(line, WS) = <<>> THEN <<"blank">> ELSE <<>>
             url == FirstWord(Strip(Drop(Strip(line, WS), 1), WS))
         IN  IF Marked(line, fence) THEN
                 GeminiLoop(Tail(lines), [acc EXCEPT !.fenced = ~@])
             ELSE IF Marked(line, "=>") THEN
                 GeminiLoop(Tail(lines),
                     [acc EXCEPT !.links = Append(@, <<">">> \o url),
                                 !.units = @ \o blank \o <<"link">>])
             ELSE IF acc.fenced THEN
                 GeminiLoop(Tail(lines), [acc EXCEPT !.units = Append(@, "fenced")])
             ELSE GeminiLoop(Tail(lines), [acc EXCEPT !.units = Append(@, "text")])

GeminiLoop(lines, acc) ==
    IF lines = <<>> THEN acc
    ELSE LET line == lines[1]
             blank == IF Strip(line, WS) = <<>> THEN <<"blank">> ELSE <<>>
             url == FirstWord(Strip(Drop(Strip(line, WS), 1), WS))
         IN  IF Marked(line, fence) THEN
                 GeminiLoop(Tail(lines), [acc EXCEPT !.fenced = ~@])
             ELSE IF acc.fenced THEN
                 GeminiLoop(Tail(lines), [acc EXCEPT !.units = Append(@, "fenced")])
             ELSE IF Marked(line, "=>") THEN
                 GeminiLoop(Tail(lines),
                     [acc EXCEPT !.links = Append(@, <<">">> \o url),
                                 !.units = @ \o blank \o <<"link">>])
             ELSE IF Marked(line, "#") THEN
                 GeminiLoop(Tail(lines), [acc EXCEPT !.units = @ \o blank \o <<"heading">>])
             ELSE IF Marked(line, "* ") THEN
                 GeminiLoop(Tail(lines), [acc EXCEPT !.units = @ \o blank \o <<"item">>])
             ELSE IF Marked(line, ">") THEN
                 GeminiLoop(Tail(lines), [acc EXCEPT !.units = @ \o blank \o <<"quote">>])
             ELSE IF blank # <<>> THEN
                 GeminiLoop(Tail(lines), [acc EXCEPT !.units = @ \o blank])
             ELSE GeminiLoop(Tail(lines), [acc EXCEPT !.units = Append(@, "text")])


(***************************************************************************)
(* class walker.  A method is an operator from the object before the call  *)
(* to the object after it.  The object w holds the fields of self that     *)
(* navigation uses, and what the command has shown so far: page (the       *)
(* banner printed by new_page, "" when none was), msgs (the reports        *)
(* printed), units (the display units of the page), exc (the exception     *)
(* that is propagating, "" when none is), and the records dir, mode0,      *)
(* commit and res of the calls of visit, update_stack and visit_link.      *)
(***************************************************************************)
\* update_stack comparing place with the last entry instead of the entry
\* under the cursor
update_stack_LastEntry(w, place) ==
    LET w1 == [w EXCEPT !.links = <<>>,
                        !.commit = [called |-> TRUE, stack |-> w.stack,
                                    pStack |-> w.pStack, place |-> place]]
        kept == IF w1.pStack # Len(w1.stack) - 1
                THEN Slice(w1.stack, w1.pStack + 1) ELSE w1.stack
    IN  IF w1.stack # <<>> /\ Idx(w1.stack, -1) = place THEN w1
        ELSE [w1 EXCEPT !.stack = Append(kept, place), !.pStack = w1.pStack + 1]

\* update_stack without the cut of the forward entries
update_stack_NoTruncate(w, place) ==
    LET w1 == [w EXCEPT !.links = <<>>,
                        !.commit = [called |-> TRUE, stack |-> w.stack,
                                    pStack |-> w.pStack, place |-> place]]
    IN  IF w1.stack # <<>> /\ Idx(w1.stack, w1.pStack) = place THEN w1
        ELSE [w1 EXCEPT !.stack = Append(w1.stack, place), !.pStack = w1.pStack + 1]

\* update_stack without the test for the place already under the cursor
update_stack_AlwaysPush(w, place) ==
    LET w1 == [w EXCEPT !.links = <<>>,
                        !.commit = [called |-> TRUE, stack |-> w.stack,
                                    pStack |-> w.pStack, place |-> place]]
        kept == IF w1.pStack # Len(w1.stack) - 1
                THEN Slice(w1.stack, w1.pStack + 1) ELSE w1.stack
    IN  [w1 EXCEPT !.stack = Append(kept, place), !.pStack = w1.pStack + 1]

\* commit records the call: the history and the cursor it found, and place
update_stack(w, place) ==
    LET w1 == [w EXCEPT !.links = <<>>,
                        !.commit = [called |-> TRUE, stack |-> w.stack,
                                    pStack |-> w.pStack, place |-> place]]
        kept == IF w1.pStack # Len(w1.stack) - 1
                THEN Slice(w1.stack, w1.pStack + 1) ELSE w1.stack
    IN  IF w1.stack # <<>> /\ Idx(w1.stack, w1.pStack) = place THEN w1
        ELSE [w1 EXCEPT !.stack = Append(kept, place), !.pStack = w1.pStack + 1]

\* back_stack returns the place; the object changes too
back_stack(w) ==
    IF 0 <= w.pStack - 1 /\ w.pStack - 1 < Len(w.stack)
    THEN [w |-> [w EXCEPT !.pStack = w.pStack - 1], place |-> w.stack[w.pStack]]
    ELSE [w |-> w, place |-> w.base]

forward_stack(w) ==
    IF 0 <= w.pStack + 1 /\ w.pStack + 1 < Len(w.stack)
    THEN [w |-> [w EXCEPT !.pStack = w.pStack + 1], place |-> w.stack[w.pStack + 2]]
    ELSE IF w.stack # <<>> /\ w.pStack = Len(w.stack) - 1
    THEN [w |-> w, place |-> Idx(w.stack, w.pStack)]
    ELSE [w |-> w, place |-> w.base]

current_stack(w) ==
    IF 0 <= w.pStack /\ w.pStack < Len(w.stack) THEN w.stack[w.pStack + 1] ELSE w.base

\* clear_stack that leaves the cursor where it was
clear_stack_KeepCursor(w) == [w EXCEPT !.stack = <<>>]

clear_stack(w) == [w EXCEPT !.stack = <<>>, !.pStack = -1]

\* title names the banner separation_line prints
new_page(w, place, title) == [update_stack(w, place) EXCEPT !.page = title]

error(w, text) == [w EXCEPT !.msgs = Append(@, text)]

process_gopher_map(w, name) ==
    IF ~IsFile(name) THEN error(w, "File does not exist")
    ELSE LET w1 == new_page([w EXCEPT !.processing = "gopher"], name, "Gopher menu")
             r == GopherLoop(ReadLines(name),
                     [links |-> w1.links, units |-> <<>>, raised |-> ""])
         IN  [w1 EXCEPT !.links = r.links, !.units = r.units, !.exc = r.raised]

process_gemini_map(w, name) ==
    IF ~IsFile(name) THEN error(w, "File does not exist")
    ELSE LET w1 == new_page([w EXCEPT !.processing = "gemini"], name, "Gemini page")
             r == GeminiLoop(ReadLines(name),
                     [links |-> w1.links, units |-> <<>>, fenced |-> FALSE])
         IN  [w1 EXCEPT !.links = r.links, !.units = r.units]

process_external_app(w, name) == new_page(w, name, "Invoke app")

\* open() raises OSError, which the method reports, when the file is missing
process_text_file(w, name) ==
    IF ~IsFile(name)
    THEN [error(w, "OSError while processing") EXCEPT !.exc = "UnboundLocalError"]
    ELSE [new_page(w, name, "Text file") EXCEPT
             !.units = [i \in 1..Len(ReadLines(name)) |-> "text"]]

\* the link of entry filename of the listing of directory name
DirLink(w, name, filename) ==
    LET path == PathJoin(name, filename)
        item == IF IsDir(path) THEN "1" ELSE gopher_file_item(filename)
    IN  <<item>> \o Replace1(path, w.base, <<>>)

process_gopher_dir(w, name) ==
    LET w0 == [w EXCEPT !.processing = "gopher"]
        files == ListDir(name)
    IN  IF ~IsDir(name) THEN error(w0, "OSError while processing")
        ELSE [new_page(w0, name, "Gopher directory") EXCEPT
                 !.links = [i \in 1..Len(files) |-> DirLink(w0, name, files[i])],
                 !.units = [i \in 1..Len(files) |-> "link"]]

process_url(w, url) == new_page(w, url, "URL")

visit_file(w, name) ==
    IF ~IsFile(name) THEN error(w, "Must be a valid file")
    ELSE IF MimeType(name) = "" THEN error(w, "Unknown file type")
    ELSE IF MimeMajor(MimeType(name)) = "text" THEN process_text_file(w, name)
    ELSE process_external_app(w, name)

RECURSIVE RebasePaths(_, _, _, _)
\* the inner loop of rebase_link, from the i-th path on
RebasePaths(w, link, url, i) ==
    IF i > Len(w.paths) THEN [w |-> w, new |-> <<>>]
    ELSE IF Exists(Replace1(link, url, w.paths[i]))
         THEN [w |-> clear_stack([w EXCEPT !.base = w.paths[i]]),
               new |-> Replace1(link, url, w.paths[i])]
         ELSE RebasePaths(w, link, url, i + 1)

RECURSIVE RebaseUrls(_, _, _)
\* the outer loop of rebase_link, from the j-th site URL on
RebaseUrls(w, link, j) ==
    IF j > Len(w.site_urls) THEN [w |-> w, new |-> <<>>]
    ELSE LET url == w.site_urls[j]
             inner == RebasePaths(w, link, url, 1)
         IN  IF ~StartsWith(link, url) THEN RebaseUrls(w, link, j + 1)
             ELSE IF Exists(Replace1(link, url, w.base))
                  THEN [w |-> w, new |-> Replace1(link, url, w.base)]
             ELSE IF inner.new # <<>> THEN inner
             ELSE RebaseUrls(w, link, j + 1)

\* rebase_link that clears the history whenever it finds a path
rebase_link_ClearAlways(w, link) ==
    LET r == RebaseUrls(w, link, 1)
    IN  IF r.new # <<>> THEN [w |-> clear_stack(r.w), new |-> r.new] ELSE r

\* rebase_link returns the new path, '' when there is none; the object changes too
rebase_link(w, link) == RebaseUrls(w, link, 1)

\* base_link that anchors every link on base
base_link_AlwaysBase(w, link) == w.base

base_link(w, link) ==
    IF link = <<>> \/ link[1] = sep THEN w.base
    ELSE IF IsDir(current_stack(w)) THEN current_stack(w)
    ELSE PathDirname(current_stack(w))

\* VisitDir looking for index.gmi before gophermap
VisitDir_GeminiFirst(w, place) ==
    LET dir == RStrip(place, {sep}) \o <<sep>>
    IN  IF IsFile(dir \o <<"index", ".gmi">>)
             THEN process_gemini_map(w, dir \o <<"index", ".gmi">>)
        ELSE IF IsFile(dir \o <<"gophermap">>)
             THEN process_gopher_map(w, dir \o <<"gophermap">>)
        ELSE IF IsFile(dir \o <<"index", ".gemini">>)
             THEN process_gemini_map(w, dir \o <<"index", ".gemini">>)
        ELSE IF w.processing = "gopher" THEN process_gopher_dir(w, place)
        ELSE IF w.processing = "gemini" THEN error(w, "Not a Gemini file")
        ELSE error(w, "Unable to find the site")

\* visit once place is known to be a directory
VisitDir(w, place) ==
    LET dir == RStrip(place, {sep}) \o <<sep>>
    IN  IF IsFile(dir \o <<"gophermap">>)
             THEN process_gopher_map(w, dir \o <<"gophermap">>)
        ELSE IF IsFile(dir \o <<"index", ".gmi">>)
             THEN process_gemini_map(w, dir \o <<"index", ".gmi">>)
        ELSE IF IsFile(dir \o <<"index", ".gemini">>)
             THEN process_gemini_map(w, dir \o <<"index", ".gemini">>)
        ELSE IF w.processing = "gopher" THEN process_gopher_dir(w, place)
        ELSE IF w.processing = "gemini" THEN error(w, "Not a Gemini file")
        ELSE error(w, "Unable to find the site")

\* dir and mode0 record the call: the directory visited and the mode found
visit(w, place) ==
    LET dir == RStrip(place, {sep}) \o <<sep>>
    IN  IF ~IsDir(place) THEN error(w, "Place must be a valid directory")
        ELSE VisitDir([w EXCEPT !.dir = place, !.mode0 = w.processing], place)

\* the dispatch at the end of visit_link
LinkDispatch(w, local, kind, rest, localLink) ==
    IF local /\ kind = "dir" THEN visit(w, localLink)
    ELSE IF local /\ kind = "file"
         THEN (IF EndsWith(rest, "gophermap") THEN process_gopher_map(w, localLink)
               ELSE IF EndsWith(rest, ".gmi") \/ EndsWith(rest, ".gemini")
                    THEN process_gemini_map(w, localLink)
               ELSE visit_file(w, localLink))
    ELSE IF ~local THEN process_url(w, rest)
    ELSE error(w, "Not supported")

\* visit_link re-basing the links of every scheme
visit_link_RebaseAny(w, id) ==
    LET link == Idx(w.links, id)
        item == link[1]
        rest == Drop(link, 1)
        lt == link_type(item, rest)
        rb == IF ~lt.local THEN rebase_link(w, rest) ELSE [w |-> w, new |-> <<>>]
        local == IF rb.new # <<>> THEN TRUE ELSE lt.local
        localLink == IF rb.new # <<>> THEN rb.new
                     ELSE PathJoin(base_link(rb.w, rest), Strip(rest, {sep}))
        done == LinkDispatch([rb.w EXCEPT !.res = [called |-> TRUE, rest |-> rest,
                                                   local |-> lt.local,
                                                   path |-> localLink]],
                             local, lt.kind, rest, localLink)
    IN  IF link = IndexError THEN error(w, "Invalid link id")
        ELSE IF done.exc = "IndexError"
             THEN error([done EXCEPT !.exc = ""], "Invalid link id")
        ELSE done

\* res records the call: the target of the link, whether it is local, and
\* the path it resolves to
visit_link(w, id) ==
    LET link == Idx(w.links, id)
        item == link[1]
        rest == Drop(link, 1)
        lt == link_type(item, rest)
        rb == IF ~lt.local /\ (StartsWith(rest, <<"gopher", "://">>)
                               \/ StartsWith(rest, <<"gemini", "://">>))
              THEN rebase_link(w, rest) ELSE [w |-> w, new |-> <<>>]
        local == IF rb.new # <<>> THEN TRUE ELSE lt.local
        localLink == IF rb.new # <<>> THEN rb.new
                     ELSE PathJoin(base_link(rb.w, rest), Strip(rest, {sep}))
        done == LinkDispatch([rb.w EXCEPT !.res = [called |-> TRUE, rest |-> rest,
                                                   local |-> lt.local,
                                                   path |-> localLink]],
                             local, lt.kind, rest, localLink)
    IN  IF link = IndexError THEN error(w, "Invalid link id")
        ELSE IF done.exc = "IndexError"
             THEN error([done EXCEPT !.exc = ""], "Invalid link id")
        ELSE done

visit_stack(w, place) ==
    IF IsURL(place) THEN process_url(w, place)
    ELSE IF IsDir(place) THEN visit(w, place)
    ELSE IF IsFile(place)
         THEN (IF EndsWith(place, ".gmi") \/ EndsWith(place, ".gemini")
               THEN process_gemini_map(w, place)
               ELSE IF EndsWith(place, "gophermap") THEN process_gopher_map(w, place)
               ELSE visit_file(w, place))
    ELSE error(w, "Unknown place")

\* the characters do_visit and do_add strip from their argument
QuoteWS == {"'", "\"", " "}

do_visit(w, line) ==
    LET path == Strip(line, QuoteWS)
        old == w.base
        w0 == clear_stack([w EXCEPT !.base = <<>>])
        w1 == IF IsDigit(path)
              THEN (IF 0 < ToInt(path) /\ ToInt(path) <= Len(w0.paths)
                    THEN [w0 EXCEPT !.base = w0.paths[ToInt(path)]]
                    ELSE error(w0, "invalid path index"))
              ELSE (IF ~InList(path, w0.paths)
                    THEN [w0 EXCEPT !.base = RStrip(path, {sep})] ELSE w0)
    IN  IF path # <<>> THEN visit(w1, w1.base)
        ELSE IF old # <<>> THEN visit([w0 EXCEPT !.base = old], old)
        ELSE IF Len(w0.paths) = 1
             THEN visit([w0 EXCEPT !.base = w0.paths[1]], w0.paths[1])
        ELSE error(w0, "missing path or index")

\* what is the first word of the add command, arg the rest of the line
do_add(w, what, arg) ==
    IF what \in {"p", "path"}
    THEN (IF Strip(arg, QuoteWS) # <<>> /\ ~InList(Strip(arg, QuoteWS), w.paths)
          THEN [w EXCEPT !.paths = Append(@, RStrip(Strip(arg, QuoteWS), {sep}))]
          ELSE w)
    ELSE IF what \in {"u", "url"}
    THEN (IF Strip(arg, WS) # <<>> /\ ~InList(Strip(arg, WS), w.site_urls)
          THEN [w EXCEPT !.site_urls = Append(@, RStrip(Strip(arg, WS), {sep}))]
          ELSE w)
    ELSE error(w, "Invalid type")

\* list(filter(None, l)): the entries of l that are not the empty string
FilterNone(l) == SelectSeq(l, LAMBDA x : x # <<>>)

\* config is what json.load returns for the file the command names
do_read(w, config) ==
    [w EXCEPT !.paths = FilterNone(config.paths),
              !.site_urls = FilterNone(config.site_urls)]

do_forward(w) == visit_stack(forward_stack(w).w, forward_stack(w).place)

do_back(w) == visit_stack(back_stack(w).w, back_stack(w).place)

\* DefaultNumber with 0 <= int(CMD) as the lower bound of a link number
DefaultNumber_ZeroBased(w, CMD, last_cmd) ==
    IF last_cmd \in {"p", "paths"} /\ 0 < ToInt(CMD) /\ ToInt(CMD) <= Len(w.paths)
    THEN do_visit(w, CMD)
    ELSE IF 0 <= ToInt(CMD) /\ ToInt(CMD) <= Len(w.links)
    THEN visit_link(w, ToInt(CMD) - 1)
    ELSE error(w, "Index out of range in current context")

\* the branch of default() for a command that is a number
DefaultNumber(w, CMD, last_cmd) ==
    IF last_cmd \in {"p", "paths"} /\ 0 < ToInt(CMD) /\ ToInt(CMD) <= Len(w.paths)
    THEN do_visit(w, CMD)
    ELSE IF 0 < ToInt(CMD) /\ ToInt(CMD) <= Len(w.links)
    THEN visit_link(w, ToInt(CMD) - 1)
    ELSE error(w, "Index out of range in current context")


(***************************************************************************)
(* The command loop (cmd.Cmd.cmdloop): one action per command line.        *)
(* lastcmd is the field of cmd.Cmd that holds the previous command line;   *)
(* precmd copies it to last_cmd before the command runs.  alive is false   *)
(* once an exception has left the loop.                                    *)
(* last and prev record the run.  last is the command just executed: its   *)
(* name and argument, the current place, cursor and history length it met, *)
(* and what it showed.  prev is the same record of the command before it,  *)
(* kept when that command was back.                                        *)
(* call and ret are used when a module-level function or a parser is taken *)
(* alone: call holds the function and its arguments, ret what it returned. *)
(* offline holds the local variables of offline_walk while it runs.        *)
(***************************************************************************)
VARIABLES base, stack, pStack, links, processing, paths, site_urls, lastcmd,
          alive, last, prev, call, ret, offline

vars == <<base, stack, pStack, links, processing, paths, site_urls, lastcmd,
          alive, last, prev, call, ret, offline>>

\* the fields of the walker and the record of the run
walk == <<base, stack, pStack, links, processing, paths, site_urls, lastcmd,
          alive, last, prev>>

\* the navigation context
Ctx == [base |-> base, stack |-> stack, pStack |-> pStack, links |-> links,
        processing |-> processing]

\* Ctx of an object
CtxOf(w) == [base |-> w.base, stack |-> w.stack, pStack |-> w.pStack,
             links |-> w.links, processing |-> w.processing]

None == <<"!None">>

\* update_stack was not called
NoCommit == [called |-> FALSE, stack |-> <<>>, pStack |-> -1, place |-> <<>>]

\* visit_link was not called
NoRes == [called |-> FALSE, rest |-> <<>>, local |-> FALSE, path |-> <<>>]

NoPrev == [cmd |-> "", place0 |-> <<>>, pos0 |-> -1, len0 |-> 0]

\* self as the command finds it
Self == [base |-> base, stack |-> stack, pStack |-> pStack, links |-> links,
         processing |-> processing, paths |-> paths, site_urls |-> site_urls,
         page |-> "", msgs |-> <<>>, units |-> <<>>, exc |-> "",
         dir |-> None, mode0 |-> "", commit |-> NoCommit, res |-> NoRes]

\* the lines the visit command is given
VisitLines ==
    { <<>>, S1, <<"/", "s2", "/">>, <<"/", "s1", "/", "pics">>,
      <<"/", "s2", "/", "old">>, <<"/", "nosuch">>, <<"1">>, <<"9">> }

\* the numbers typed as a command
NumberLines == { <<"0">>, <<"1">>, <<"2">>, <<"3">>, <<"4">>, <<"5">>, <<"9">> }

\* the paths and site URLs the add command is given
AddPaths == { S1, S2 }
AddUrls == { <<"gopher", "://", "h1">> }

\* the configuration files the read command is given: one written by hand,
\* with a path that ends in the separator and an empty entry, and one as the
\* save command writes it
Configs ==
    { [paths |-> << <<"/", "s1", "/">>, <<>> >>,
       site_urls |-> << <<"gopher", "://", "h1">> >>],
      [paths |-> << S2 >>, site_urls |-> << <<"https", "://", "ex", ".org">> >>] }

\* no function is taken alone
NoCall == [fn |-> "", item |-> "", text |-> <<>>, parts |-> <<>>, lines |-> <<>>]

\* nothing was returned
NoRet == [done |-> FALSE, local |-> FALSE, kind |-> "", target |-> <<>>,
          links |-> <<>>, units |-> <<>>, raised |-> "", fenced |-> FALSE]

\* no call of extract_links was made
NoStep == [called |-> FALSE, kind |-> "", fileName |-> <<>>, parsed |-> FALSE,
           links |-> {}]

\* offline_walk does not run
NoWalk == [phase |-> "", next |-> 0, kind |-> "", base |-> <<>>, files |-> {},
           visited_files |-> {}, visited_sites |-> {}, frames |-> <<>>,
           orphans |-> {}, errors |-> {}, opened |-> {}, again |-> {},
           listed |-> {}, step |-> NoStep]

\* the walker as __init__ leaves it
InitWalker ==
    /\ base = <<>>
    /\ stack = <<>>
    /\ pStack = -1
    /\ links = <<>>
    /\ processing = ""
    /\ paths = <<>>
    /\ site_urls = <<>>
    /\ lastcmd = ""
    /\ alive = TRUE
    /\ last = [cmd |-> "", arg |-> <<>>, place0 |-> <<>>, pos0 |-> -1, len0 |-> 0,
               page |-> "",
               msgs |-> <<>>, units |-> <<>>, exc |-> "", dir |-> None, mode0 |-> "",
               commit |-> NoCommit, res |-> NoRes]
    /\ prev = NoPrev

Init ==
    /\ InitWalker
    /\ call = NoCall
    /\ ret = NoRet
    /\ offline = NoWalk

\* the command named cmd, typed as line with argument arg, leaves self as w
Finish(w, cmd, line, arg) ==
    /\ Len(w.stack) <= MaxStack
    /\ base' = w.base
    /\ stack' = w.stack
    /\ pStack' = w.pStack
    /\ links' = w.links
    /\ processing' = w.processing
    /\ paths' = w.paths
    /\ site_urls' = w.site_urls
    /\ lastcmd' = line
    /\ alive' = (w.exc = "")
    /\ last' = [cmd |-> cmd, arg |-> arg, place0 |-> current_stack(Self),
                pos0 |-> pStack, len0 |-> Len(stack), page |-> w.page, msgs |-> w.msgs,
                units |-> w.units, exc |-> w.exc, dir |-> w.dir, mode0 |-> w.mode0,
                commit |-> w.commit, res |-> w.res]
    /\ prev' = IF last.cmd = "back"
               THEN [cmd |-> last.cmd, place0 |-> last.place0, pos0 |-> last.pos0,
                     len0 |-> last.len0]
               ELSE NoPrev
    /\ UNCHANGED <<call, ret, offline>>

\* visit <line>
Visit ==
    /\ alive
    /\ \E line \in VisitLines : Finish(do_visit(Self, line), "visit", "visit", line)

\* a number: default() takes it as a bookmark number or as a link number
Number ==
    /\ alive
    /\ \E n \in NumberLines : Finish(DefaultNumber(Self, n, lastcmd), "number", "n", n)

\* back
Back ==
    /\ alive
    /\ Finish(do_back(Self), "back", "back", <<>>)

\* forward
Forward ==
    /\ alive
    /\ Finish(do_forward(Self), "forward", "forward", <<>>)

\* paths, or its shortcut p: the list of bookmarks is printed
Paths ==
    /\ alive
    /\ \E line \in {"p", "paths"} : Finish(Self, "paths", line, <<>>)

\* add path <path>
AddPath ==
    /\ alive
    /\ Len(paths) < MaxPaths
    /\ \E p \in AddPaths : Finish(do_add(Self, "path", p), "add", "add", p)

\* add url <url>
AddUrl ==
    /\ alive
    /\ Len(site_urls) < MaxUrls
    /\ \E u \in AddUrls : Finish(do_add(Self, "url", u), "add", "add", u)

\* read <file>
Read ==
    /\ alive
    /\ \E config \in Configs : Finish(do_read(Self, config), "read", "read", <<>>)

Next == Visit \/ Number \/ Back \/ Forward \/ Paths \/ AddPath \/ AddUrl \/ Read

Spec == Init /\ [][Next]_vars

TypeOK ==
    /\ pStack \in -1..MaxStack
    /\ processing \in {"", "gopher", "gemini"}
    /\ Len(stack) <= MaxStack
    /\ Len(paths) <= MaxPaths
    /\ Len(site_urls) <= MaxUrls

(***************************************************************************)
(* The module-level functions and the Gopher parser taken alone: the       *)
(* arguments are drawn from bounded sets and one step applies the          *)
(* function to them.                                                       *)
(***************************************************************************)
\* the item characters link_type is given: those of gopherItems, the ">" of
\* a Gemini link and a character that is no Gopher item
LinkItems == gopherItems \cup {">", "x"}

\* the targets link_type is given
LinkTexts ==
    { <<>>,
      <<"about", ".txt">>,
      <<"/", "docs">>,
      <<"gopher", "://", "h1", "/", "docs">>,
      <<"gemini", "://", "h1">>,
      <<"https", "://", "ex", ".org">>,
      <<"h1", "://", "docs">>,
      <<" ", "https", "://", "ex", ".org">> }

\* the selector, host and port fields gopher_real_link is given
Selectors ==
    { <<"URL:", "https", "://", "ex", ".org">>,
      <<"URL:", " ", "gopher", "://", "h1">>,
      <<"URL:", "about", ".txt">>,
      <<"/", "docs">>,
      <<"about", ".txt">>,
      <<>> }
Hosts == { <<>>, <<"h1">> }
Ports == { <<"70">>, <<"7070">> }

\* the field lists gopher_real_link is given: display text and selector,
\* then host, then port
LinkParts ==
    {<< <<"Web">>, s >> : s \in Selectors}
    \cup {<< <<"Web">>, s, h >> : s \in Selectors, h \in Hosts}
    \cup {<< <<"Web">>, s, h, p >> : s \in Selectors, h \in Hosts, p \in Ports}

\* the lines of the Gopher maps the parser is given
GopherLines ==
    { << <<>> >>,
      << <<"i", "Welcome">>, <<"fake">>, <<"(NULL)">>, <<"0">> >>,
      << <<"i", "nfo without a tab">> >>,
      << <<"0", "About">>, <<"about", ".txt">> >>,
      << <<"1", "Docs">>, <<"/", "docs">>, <<"h1">>, <<"70">> >>,
      << <<"1", "Root">>, <<>>, <<"h1">>, <<"70">> >>,
      << <<"h", "Web">>, <<"URL:", "https", "://", "ex", ".org">>, <<"h1">>, <<"70">> >>,
      << <<"T", "ext without a tab">> >>,
      << <<"x", "Unknown">>, <<"sel">> >> }

\* the Gopher maps of at most MaxLines lines
GopherMaps == UNION {[1..n -> GopherLines] : n \in 0..MaxLines}

\* the lines of the Gemini files the parser is given
GeminiLines ==
    { <<fence>>,
      <<" ", fence, "alt">>,
      <<"=>", " ", "page", ".gmi", " ", "Page">>,
      <<"#", " ", "Head">>,
      <<"* ", "item">>,
      <<">", "quote">>,
      <<>>,
      <<"plain text">> }

\* the Gemini files of at most MaxGemLines lines
GeminiFiles == UNION {[1..n -> GeminiLines] : n \in 0..MaxGemLines}

ParseInit ==
    /\ InitWalker
    /\ ret = NoRet
    /\ offline = NoWalk
    /\ \/ \E item \in LinkItems, text \in LinkTexts :
             call = [NoCall EXCEPT !.fn = "link_type", !.item = item, !.text = text]
       \/ \E item \in {"h", "0", "1"}, parts \in LinkParts :
             call = [NoCall EXCEPT !.fn = "gopher_real_link", !.item = item,
                                   !.parts = parts]
       \/ \E lines \in GopherMaps :
             call = [NoCall EXCEPT !.fn = "process_gopher_map", !.lines = lines]
       \/ \E lines \in GeminiFiles :
             call = [NoCall EXCEPT !.fn = "process_gemini_map", !.lines = lines]

\* link_type(item, text)
ClassifyLink ==
    /\ call.fn = "link_type" /\ ~ret.done
    /\ ret' = [NoRet EXCEPT !.done = TRUE,
                            !.local = link_type(call.item, call.text).local,
                            !.kind = link_type(call.item, call.text).kind]
    /\ UNCHANGED <<call, walk, offline>>

\* item + gopher_real_link(item, part), as process_gopher_map appends it to
\* the links, and link_type of that link, as visit_link calls it
GopherLink ==
    /\ call.fn = "gopher_real_link" /\ ~ret.done
    /\ LET target == gopher_real_link(call.item, call.parts)
       IN  ret' = IF target = IndexError
                  THEN [NoRet EXCEPT !.done = TRUE, !.raised = "IndexError"]
                  ELSE [NoRet EXCEPT !.done = TRUE, !.target = target,
                                     !.local = link_type(call.item, target).local,
                                     !.kind = link_type(call.item, target).kind]
    /\ UNCHANGED <<call, walk, offline>>

\* the loop of process_gopher_map over the lines of the file
ParseGopherMap ==
    /\ call.fn = "process_gopher_map" /\ ~ret.done
    /\ LET r == GopherLoop(call.lines, [links |-> <<>>, units |-> <<>>, raised |-> ""])
       IN  ret' = [NoRet EXCEPT !.done = TRUE, !.links = r.links, !.units = r.units,
                                !.raised = r.raised]
    /\ UNCHANGED <<call, walk, offline>>

\* the loop of process_gemini_map over the lines of the file
ParseGeminiMap ==
    /\ call.fn = "process_gemini_map" /\ ~ret.done
    /\ LET r == GeminiLoop(call.lines, [links |-> <<>>, units |-> <<>>, fenced |-> FALSE])
       IN  ret' = [NoRet EXCEPT !.done = TRUE, !.links = r.links, !.units = r.units,
                                !.fenced = r.fenced]
    /\ UNCHANGED <<call, walk, offline>>

ParseNext == ClassifyLink \/ GopherLink \/ ParseGopherMap \/ ParseGeminiMap

ParseSpec == ParseInit /\ [][ParseNext]_vars

(***************************************************************************)
(* offline_walk(w): the traversal of the sites of w.paths, one step per    *)
(* call of extract_links, and the orphan scan.  The lines of a file end    *)
(* with a newline.  The for loops over the sets links take the links in    *)
(* any order.  opened and again record the traversal of one site: the      *)
(* files read for their links, and those read more than once.              *)
(***************************************************************************)
\* os.listdir(d), as the set of the names in d
DirNames(d) ==
    {x[Len(x)] : x \in {y \in Files \cup Dirs :
                           /\ Len(y) = Len(Canon(d)) + 1
                           /\ SubSeq(y, 1, Len(Canon(d))) = Canon(d)}}

\* os.path.join(root, name) for the file cs below the directory top, as
\* os.walk(top) gives root and name
RECURSIVE JoinAll(_, _, _)
JoinAll(root, cs, i) ==
    IF i > Len(cs) THEN root ELSE JoinAll(PathJoin(root, cs[i]), cs, i + 1)

\* the full names of the files os.walk(top) meets
WalkNames(top) ==
    IF ~IsDir(top) THEN {}
    ELSE {JoinAll(top, f, Len(Canon(top)) + 1) :
             f \in {x \in Files : /\ Len(x) > Len(Canon(top))
                                  /\ SubSeq(x, 1, Len(Canon(top))) = Canon(top)}}

\* the items of the lines gopher_hole takes links from
holeItems == {"0", "1", "4", "5", "6", "9", "g", "I", "h", "s"}

\* the link gopher_hole takes from a line of a map: item + url, None when it
\* takes none
HoleLink(part) ==
    LET line == [part EXCEPT ![Len(part)] = RStrip(@, {" "})]
    IN  IF line[1] = <<>> \/ line[1][1] \notin holeItems THEN None
        ELSE IF Len(line) = 1 THEN None
        ELSE IF line[2] = <<>> THEN None
        ELSE <<line[1][1]>> \o line[2]

\* re.match(r'^hURL:', l)
HoleExternal(l) == StartsWith(l, <<"h", "URL:">>)

\* the result of a call of extract_links
Returned(files, fileName, failed, listed) ==
    [files |-> files, fileName |-> fileName, failed |-> failed, listed |-> listed,
     parsed |-> FALSE, links |-> {}, local |-> <<>>]

\* extract_links(item, base, local, name) of gopher_hole, up to its loop
\* over links
hole_extract_links(files, base_, local, name) ==
    LET joined == IF name # <<>> /\ name[1] = sep THEN base_ \o name
                  ELSE local \o <<sep>> \o name
        map == IF EndsWith(joined, sep) THEN joined \o <<"gophermap">>
               ELSE joined \o <<sep, "gophermap">>
        fileName == IF IsDir(joined) /\ IsFile(map) THEN map ELSE joined
        listFiles == IF IsDir(fileName) THEN DirNames(fileName) ELSE {}
        added == IF listFiles # {} THEN files \cup listFiles
                 ELSE files \cup {fileName}
        lines == ReadLines(fileName)
    IN  IF ~IsFile(fileName) /\ ~IsDir(fileName)
            THEN Returned(files, fileName, TRUE, FALSE)
        ELSE IF fileName \in files
            THEN Returned(files, fileName, FALSE, IsDir(fileName))
        ELSE IF ~EndsWith(fileName, "gophermap")
            THEN Returned(added, fileName, FALSE, IsDir(fileName))
        ELSE [files |-> added, fileName |-> fileName, failed |-> FALSE,
              listed |-> FALSE, parsed |-> TRUE,
              links |-> {HoleLink(lines[i]) : i \in 1..Len(lines)} \ {None},
              local |-> PathDirname(fileName)]

\* re.split(r'[ \t]+', s)[0], s being the rest of a line and its newline
RECURSIVE FirstField(_)
FirstField(s) ==
    IF s = <<>> THEN <<newline>>
    ELSE IF s[1] \in WS THEN <<>>
    ELSE <<s[1]>> \o FirstField(Tail(s))

\* the link gemini_capsule takes from a line, None when it takes none
CapsuleLink(line) ==
    IF ~StartsWith(line, <<"=>">>) THEN None
    ELSE FirstField(LStrip(Tail(line), WS))

\* re.match(r'^[a-z]*:', l)
CapsuleExternal(l) ==
    \/ l # <<>> /\ l[1] \in {":", "://"}
    \/ Len(l) >= 2 /\ l[1] \in AlphaTokens /\ l[2] \in {":", "://"}

\* extract_links(base, local, name) of gemini_capsule, up to its loop over
\* links
capsule_extract_links(files, base_, local, name) ==
    LET fileName == IF name # <<>> /\ name[1] = sep THEN base_ \o name
                    ELSE local \o <<sep>> \o name
        lines == ReadLines(fileName)
    IN  IF ~IsFile(fileName) THEN Returned(files, fileName, TRUE, FALSE)
        ELSE IF fileName \in files THEN Returned(files, fileName, FALSE, FALSE)
        ELSE IF ~EndsWith(fileName, ".gmi")
            THEN Returned(files \cup {fileName}, fileName, FALSE, FALSE)
        ELSE [files |-> files \cup {fileName}, fileName |-> fileName,
              failed |-> FALSE, listed |-> FALSE, parsed |-> TRUE,
              links |-> {CapsuleLink(lines[i]) : i \in 1..Len(lines)} \ {None},
              local |-> PathDirname(fileName)]

\* the entry file of the site at path and the kind of the site, as the loop
\* over w.paths chooses them; kind is "" for an invalid path
EntryOf(path) ==
    IF IsDir(path)
    THEN IF IsFile(path \o <<sep, "gophermap">>)
         THEN [kind |-> "gopher", file |-> path \o <<sep, "gophermap">>, site |-> path]
         ELSE IF IsFile(path \o <<sep, "index", ".gmi">>)
         THEN [kind |-> "gemini", file |-> path \o <<sep, "index", ".gmi">>,
               site |-> path]
         ELSE [kind |-> "", file |-> <<>>, site |-> <<>>]
    ELSE IF IsFile(path) /\ EndsWith(path, "gophermap")
         THEN [kind |-> "gopher", file |-> path, site |-> Slice(path, Len(path) - 2)]
    ELSE IF IsFile(path) /\ EndsWith(path, ".gmi") /\ EndsWith(Slice(path, Len(path) - 1), "index")
         THEN [kind |-> "gemini", file |-> path, site |-> Slice(path, Len(path) - 3)]
    ELSE [kind |-> "", file |-> <<>>, site |-> <<>>]

\* the call of extract_links that returned r leaves the traversal o so:
\* when the call goes on to its loop over links, that loop is the new frame
AfterCall(o, kind, r) ==
    [o EXCEPT !.files = r.files,
              !.frames = IF r.parsed
                         THEN Append(@, [local |-> r.local, links |-> r.links])
                         ELSE @,
              !.errors = IF r.failed THEN @ \cup {r.fileName} ELSE @,
              !.listed = IF r.listed THEN @ \cup {r.fileName} ELSE @,
              !.opened = IF r.parsed THEN @ \cup {r.fileName} ELSE @,
              !.again = IF r.parsed /\ \E f \in o.opened : Canon(f) = Canon(r.fileName)
                        THEN @ \cup {Canon(r.fileName)} ELSE @,
              !.step = [called |-> TRUE, kind |-> kind, fileName |-> r.fileName,
                        parsed |-> r.parsed, links |-> r.links]]

\* the paths given on the command line
OfflineArgs ==
    { S1, S2, C1, C2, C3, <<"/", "c1", "/", "index", ".gmi">>,
      <<"/", "s1", "/", "pics", "/">> }

\* __main__ in offline mode: the paths are the arguments without their
\* trailing separators
WalkInit ==
    /\ base = <<>>
    /\ stack = <<>>
    /\ pStack = -1
    /\ links = <<>>
    /\ processing = ""
    /\ \E n \in 1..MaxRoots : \E args \in [1..n -> OfflineArgs] :
          paths = [i \in 1..n |-> RStrip(args[i], {sep})]
    /\ site_urls = <<>>
    /\ lastcmd = ""
    /\ alive = TRUE
    /\ last = [cmd |-> "", arg |-> <<>>, place0 |-> <<>>, pos0 |-> -1, len0 |-> 0,
               page |-> "",
               msgs |-> <<>>, units |-> <<>>, exc |-> "", dir |-> None, mode0 |-> "",
               commit |-> NoCommit, res |-> NoRes]
    /\ prev = NoPrev
    /\ call = NoCall
    /\ ret = NoRet
    /\ offline = [NoWalk EXCEPT !.phase = "walk", !.next = 1]

\* one round of the loop over w.paths, up to the first call of extract_links
OfflinePath ==
    /\ offline.phase = "walk" /\ offline.frames = <<>>
    /\ offline.next <= Len(paths)
    /\ LET e == EntryOf(paths[offline.next])
           o == [offline EXCEPT !.kind = e.kind, !.base = e.site, !.files = {},
                                !.opened = {}]
       IN  offline' =
             IF e.kind = "" THEN [offline EXCEPT !.next = @ + 1]
             ELSE IF e.kind = "gopher"
             THEN AfterCall(o, "gopher",
                     hole_extract_links({}, Slice(e.file, Len(e.file) - 2),
                                        Slice(e.file, Len(e.file) - 2),
                                        <<sep, "gophermap">>))
             ELSE AfterCall(o, "gemini",
                     capsule_extract_links({}, Slice(e.file, Len(e.file) - 3),
                                           Slice(e.file, Len(e.file) - 3),
                                           <<sep, "index", ".gmi">>))
    /\ UNCHANGED <<call, ret, walk>>

\* one round of the loop over links of the innermost call
OfflineLink ==
    /\ offline.phase = "walk" /\ offline.frames # <<>>
    /\ LET n == Len(offline.frames)
           top == offline.frames[n]
       IN  \E l \in top.links :
             LET o == [offline EXCEPT !.frames[n].links = @ \ {l}]
                 r == IF offline.kind = "gopher"
                      THEN hole_extract_links(offline.files, offline.base, top.local,
                                              Tail(l))
                      ELSE capsule_extract_links(offline.files, offline.base,
                                                 top.local, l)
                 external == IF offline.kind = "gopher" THEN HoleExternal(l)
                             ELSE CapsuleExternal(l)
             IN  /\ (~external /\ r.parsed) => n < MaxDepth
                 /\ offline' = IF external THEN o ELSE AfterCall(o, offline.kind, r)
    /\ UNCHANGED <<call, ret, walk>>

\* the innermost call returns; when it is the first call, gopher_hole or
\* gemini_capsule returns files
OfflineReturn ==
    /\ offline.phase = "walk" /\ offline.frames # <<>>
    /\ offline.frames[Len(offline.frames)].links = {}
    /\ offline' =
         IF Len(offline.frames) > 1
         THEN [offline EXCEPT !.frames = Slice(@, Len(@) - 1)]
         ELSE [offline EXCEPT !.frames = <<>>,
                              !.visited_files = @ \cup offline.files,
                              !.visited_sites = @ \cup {offline.base},
                              !.next = @ + 1]
    /\ UNCHANGED <<call, ret, walk>>

\* the orphan scan
OfflineScan ==
    /\ offline.phase = "walk" /\ offline.frames = <<>>
    /\ offline.next > Len(paths)
    /\ offline' = [offline EXCEPT
          !.phase = "done",
          !.orphans = UNION {WalkNames(paths[i]) \ offline.visited_files :
                                i \in 1..Len(paths)}]
    /\ UNCHANGED <<call, ret, walk>>

WalkNext == OfflinePath \/ OfflineLink \/ OfflineReturn \/ OfflineScan

WalkSpec == WalkInit /\ [][WalkNext]_vars

(***************************************************************************)
(* Properties of the navigation engine.                                    *)
(***************************************************************************)
\* the history entry under the cursor
CurrentEntry == Idx(stack, pStack)

\* the number typed in the step, and whether default() takes it as a bookmark
TypedNumber == ToInt(last'.arg)
TakenAsBookmark ==
    lastcmd \in {"p", "paths"} /\ 0 < TypedNumber /\ TypedNumber <= Len(paths)

\* the step is a number command that follows a link of the link table
FollowsLink ==
    /\ last'.cmd = "number"
    /\ ~TakenAsBookmark
    /\ 0 < TypedNumber /\ TypedNumber <= Len(links)

\* the step is a number command whose number is out of range of the link table
OutOfRange ==
    /\ last'.cmd = "number"
    /\ (TypedNumber < 1 \/ TypedNumber > Len(links))

\* C1 as stated: with at least 2 history entries and the cursor anywhere,
\* back then forward leaves the entry under the cursor the one that was
\* current before back.
C1_AnyCursor ==
    (last.cmd = "forward" /\ prev.cmd = "back" /\ prev.len0 >= 2)
        => CurrentEntry = prev.place0

\* C1 amended: with at least 2 history entries and the cursor not on the first
\* entry, back then forward leaves the entry under the cursor the one that was
\* current before back.
C1_BackThenForward ==
    (last.cmd = "forward" /\ prev.cmd = "back" /\ prev.len0 >= 2 /\ prev.pos0 >= 1)
        => CurrentEntry = prev.place0

\* back at the second of three entries, then forward
C1_Witness ==
    /\ last.cmd = "forward" /\ prev.cmd = "back"
    /\ prev.len0 = 3 /\ prev.pos0 = 1
    /\ pStack = 1 /\ CurrentEntry = prev.place0

\* C2: the cursor is inside the history when the history is not empty, and
\* is -1 exactly when the history is empty.
C2_CursorInRange ==
    /\ stack # <<>> => (0 <= pStack /\ pStack < Len(stack))
    /\ pStack = -1 <=> stack = <<>>

\* a commit after back: the history was cut and the cursor is on its last entry
C2_Witness ==
    /\ last.commit.called
    /\ last.commit.pStack < Len(last.commit.stack) - 1
    /\ last.commit.place # Idx(last.commit.stack, last.commit.pStack)
    /\ pStack = Len(stack) - 1 /\ pStack >= 1

\* C3: back and forward leave the history as it was, and move the cursor by
\* one position, or by none at the first entry (back) or the last (forward).
C3_BackForwardFrame ==
    [][(last'.cmd \in {"back", "forward"}) =>
          /\ stack' = stack
          /\ last'.cmd = "back" =>
                (pStack' = pStack - 1 \/ (pStack <= 0 /\ pStack' = pStack))
          /\ last'.cmd = "forward" =>
                (pStack' = pStack + 1 \/ (pStack = Len(stack) - 1 /\ pStack' = pStack))
      ]_vars

\* C4: a commit of a place other than the entry under the cursor, with the
\* cursor before the last entry, leaves the entries up to the cursor followed
\* by the place, and the cursor on that last entry.
C4_TruncateForward ==
    (/\ last.commit.called
     /\ last.commit.stack # <<>>
     /\ last.commit.place # Idx(last.commit.stack, last.commit.pStack)
     /\ last.commit.pStack # Len(last.commit.stack) - 1)
        => /\ stack = Append(Slice(last.commit.stack, last.commit.pStack + 1),
                             last.commit.place)
           /\ pStack = Len(stack) - 1

\* a link followed from the first of three entries
C4_Witness ==
    /\ last.cmd = "number" /\ last.commit.called
    /\ Len(last.commit.stack) = 3 /\ last.commit.pStack = 0
    /\ last.commit.place # last.commit.stack[1]
    /\ Len(stack) = 2 /\ pStack = 1

\* C5: a commit of the place that is the current top of the history, the entry
\* under the cursor, leaves the history length (and the history) as it was.
C5_IdempotentCommit ==
    (/\ last.commit.called
     /\ last.commit.stack # <<>>
     /\ last.commit.place = Idx(last.commit.stack, last.commit.pStack))
        => /\ Len(stack) = Len(last.commit.stack)
           /\ stack = last.commit.stack
           /\ pStack = last.commit.pStack

\* back on the first of several entries loads the index of base, which is
\* that entry, again
C5_Witness ==
    /\ last.cmd = "back" /\ last.pos0 = 0 /\ last.commit.called
    /\ Len(last.commit.stack) >= 2 /\ last.commit.pStack = 0
    /\ last.commit.place = last.commit.stack[1]
    /\ stack = last.commit.stack

\* C6: a link that is followed and loads no page leaves base, history,
\* cursor, processing mode and link table as they were.
C6_FailedLinkFrame ==
    [][(FollowsLink /\ last'.page = "") => Ctx' = Ctx]_vars

\* C7: a visit command that loads no page leaves base, history, cursor,
\* processing mode and link table as they were.
C7_FailedVisitFrame ==
    [][(last'.cmd = "visit" /\ last'.page = "") => Ctx' = Ctx]_vars

\* C8 as stated: a number out of range of the link table is reported and
\* changes nothing, whatever the command before it.
C8_AnyPreviousCommand ==
    [][OutOfRange =>
          /\ Ctx' = Ctx
          /\ last'.msgs = <<"Index out of range in current context">>
      ]_vars

\* C8 amended: a number out of range of the link table is reported and changes
\* nothing, unless the command before it was the paths listing and the number
\* is a bookmark number (the number then visits that bookmark).
C8_OutOfRangeFrame ==
    [][(OutOfRange /\ ~TakenAsBookmark) =>
          /\ Ctx' = Ctx
          /\ last'.msgs = <<"Index out of range in current context">>
      ]_vars

\* a number out of range typed on a page with links, with a bookmark in the list
C8_Witness ==
    /\ last.cmd = "number" /\ last.arg = <<"9">>
    /\ last.msgs = <<"Index out of range in current context">>
    /\ links # <<>> /\ paths # <<>>

\* the links of the page at place, in file order
PageLinks(place) ==
    IF IsURL(place) THEN <<>>
    ELSE IF IsDir(place)
         THEN [i \in 1..Len(ListDir(place)) |-> DirLink(Self, place, ListDir(place)[i])]
    ELSE IF ~IsFile(place) THEN <<>>
    ELSE IF EndsWith(place, "gophermap")
         THEN GopherLoop(ReadLines(place),
                         [links |-> <<>>, units |-> <<>>, raised |-> ""]).links
    ELSE IF EndsWith(place, ".gmi") \/ EndsWith(place, ".gemini")
         THEN GeminiLoop(ReadLines(place),
                         [links |-> <<>>, units |-> <<>>, fenced |-> FALSE]).links
    ELSE <<>>

\* C9: the link table holds the links of the place under the cursor, in file
\* order, and is empty when the history is empty.
C9_LinksOfCurrentPage ==
    links = IF stack = <<>> THEN <<>> ELSE PageLinks(CurrentEntry)

\* C10: visit on a directory loads its gophermap, else its index.gmi, else its
\* index.gemini; with none of them it lists the directory if and only if the
\* mode is gopher, and otherwise reports an error and loads no page.
C10_VisitOrder ==
    last.dir # None =>
        LET d == RStrip(last.dir, {sep}) \o <<sep>>
        IN  IF IsFile(d \o <<"gophermap">>)
            THEN last.page = "Gopher menu" /\ CurrentEntry = d \o <<"gophermap">>
            ELSE IF IsFile(d \o <<"index", ".gmi">>)
            THEN last.page = "Gemini page" /\ CurrentEntry = d \o <<"index", ".gmi">>
            ELSE IF IsFile(d \o <<"index", ".gemini">>)
            THEN last.page = "Gemini page" /\ CurrentEntry = d \o <<"index", ".gemini">>
            ELSE /\ last.page = "Gopher directory" <=> last.mode0 = "gopher"
                 /\ last.mode0 = "gopher" => CurrentEntry = last.dir
                 /\ last.mode0 # "gopher" =>
                       (last.page = "" /\ ~last.commit.called /\ last.msgs # <<>>)

\* a directory without an index visited in gopher mode: its listing is the page
C10_Witness ==
    /\ last.dir # None /\ last.mode0 = "gopher"
    /\ ~IsFile(last.dir \o <<sep, "gophermap">>)
    /\ ~IsFile(last.dir \o <<sep, "index", ".gmi">>)
    /\ ~IsFile(last.dir \o <<sep, "index", ".gemini">>)
    /\ last.page = "Gopher directory" /\ CurrentEntry = last.dir

\* the processing mode an index page sets, "" when the banner is not that of
\* an index page
ModeOfPage(title) ==
    IF title = "Gopher menu" THEN "gopher"
    ELSE IF title = "Gemini page" THEN "gemini"
    ELSE ""

\* C11: the visit command clears the processing mode: the mode is unset when
\* visit starts looking for an index, and after the command it is the kind of
\* the index page loaded, or unset if no page was loaded.
C11_VisitClearsMode ==
    last.cmd = "visit" =>
        /\ last.dir # None => last.mode0 = ""
        /\ processing = ModeOfPage(last.page)

\* the index file of directory d: the first of the three names that exists,
\* <<>> when d has none
IndexOf(d) ==
    LET dir == RStrip(d, {sep}) \o <<sep>>
    IN  IF IsFile(dir \o <<"gophermap">>) THEN dir \o <<"gophermap">>
        ELSE IF IsFile(dir \o <<"index", ".gmi">>) THEN dir \o <<"index", ".gmi">>
        ELSE IF IsFile(dir \o <<"index", ".gemini">>) THEN dir \o <<"index", ".gemini">>
        ELSE <<>>

\* the directory the last visit command named: the path typed, or the
\* bookmark of the number typed, <<>> when the number names no bookmark
VisitTarget ==
    IF IsDigit(last.arg)
    THEN (IF 0 < ToInt(last.arg) /\ ToInt(last.arg) <= Len(paths)
          THEN paths[ToInt(last.arg)] ELSE <<>>)
    ELSE last.arg

\* C12: a visit command that names an existing directory with an index file,
\* by path (bookmarked or not) or by 1-based bookmark number, sets base to the
\* directory and leaves the history as exactly [the index file], cursor on it.
C12_VisitLoadsIndex ==
    (last.cmd = "visit" /\ IsDir(VisitTarget) /\ IndexOf(VisitTarget) # <<>>)
        => /\ base = RStrip(VisitTarget, {sep})
           /\ stack = <<IndexOf(VisitTarget)>>
           /\ pStack = 0

\* C13: base never ends with the path separator, whatever visit, number, add,
\* read and re-basing commands produced it.
C13_BaseNoTrailingSep == ~EndsWith(base, sep)

\* place p is a path of the directory tree rooted at base
InsideBase(p) ==
    /\ IsAbsolute(p) /\ IsAbsolute(base)
    /\ StartsWith(Canon(p), Canon(base))

\* C14: every entry of the history, the current place among them, is an
\* external URL or a path inside the directory tree rooted at base.
C14_PlacesInsideBase ==
    \A i \in 1..Len(stack) : IsURL(stack[i]) \/ InsideBase(stack[i])

\* the step follows a link that the classifier reports local
FollowsLocalLink == last'.res.called /\ last'.res.local

\* the anchor directory of the link the step follows: base when the target is
\* empty or starts with the separator, else the current place when it is a
\* directory, else the directory that contains the current place
LinkAnchor ==
    IF last'.res.rest = <<>> \/ last'.res.rest[1] = sep THEN base
    ELSE IF IsDir(last'.place0) THEN last'.place0
    ELSE PathDirname(last'.place0)

\* C15 as stated: a local link resolves to the anchor joined with the target
\* without its leading separators.
C15_LeadingSepRemoved ==
    [][FollowsLocalLink =>
          last'.res.path = PathJoin(LinkAnchor, LStrip(last'.res.rest, {sep}))
      ]_vars

\* C15 amended: a local link resolves to the anchor joined with the target
\* without its leading and its trailing separators.
C15_LocalResolution ==
    [][FollowsLocalLink =>
          last'.res.path = PathJoin(LinkAnchor, Strip(last'.res.rest, {sep}))
      ]_vars

\* the link /gophermap of /s1/pics/n.gmi followed with base /s1
C15_Witness ==
    /\ last.res.called /\ last.res.local
    /\ last.res.rest = <<"/", "gophermap">>
    /\ last.place0 = <<"/", "s1", "/", "pics", "/", "n", ".gmi">>
    /\ last.res.path = <<"/", "s1", "/", "gophermap">>
    /\ CurrentEntry = <<"/", "s1", "/", "gophermap">>

\* the target of the link the step follows, with the first bookmarked URL
\* prefix it begins with replaced by base
OntoBase ==
    LET rest == last'.res.rest
        j == CHOOSE k \in 1..Len(site_urls) :
                 /\ StartsWith(rest, site_urls[k])
                 /\ \A m \in 1..(k - 1) : ~StartsWith(rest, site_urls[m])
    IN  Replace1(rest, site_urls[j], base)

\* the step follows a non-local gopher:// or gemini:// link that begins with a
\* bookmarked URL prefix, its re-basing onto base names an existing path, and
\* a page is loaded
RebasedOntoBase ==
    /\ last'.res.called /\ ~last'.res.local
    /\ \/ StartsWith(last'.res.rest, <<"gopher", "://">>)
       \/ StartsWith(last'.res.rest, <<"gemini", "://">>)
    /\ \E k \in 1..Len(site_urls) : StartsWith(last'.res.rest, site_urls[k])
    /\ Exists(OntoBase)
    /\ last'.page # ""

\* C16 as stated: a link re-based onto base is loaded as a local page, base
\* is unchanged and the history is reset: it holds only the place loaded.
C16_HistoryReset ==
    [][RebasedOntoBase =>
          /\ last'.page # "URL"
          /\ StartsWith(last'.commit.place, OntoBase)
          /\ base' = base
          /\ stack' = <<last'.commit.place>> /\ pStack' = 0
      ]_vars

\* C16 amended: a link re-based onto base is loaded as a local page, base is
\* unchanged and the history is kept: the place loaded is committed after the
\* entry under the cursor.
C16_HistoryKept ==
    [][RebasedOntoBase =>
          /\ last'.page # "URL"
          /\ StartsWith(last'.commit.place, OntoBase)
          /\ base' = base
          /\ last'.commit.stack = stack /\ last'.commit.pStack = pStack
          /\ IF stack # <<>> /\ CurrentEntry = last'.commit.place
             THEN stack' = stack /\ pStack' = pStack
             ELSE /\ stack' = Append(Slice(stack, pStack + 1), last'.commit.place)
                  /\ pStack' = Len(stack') - 1
      ]_vars

\* the link gopher://h1/docs of /s1/gophermap followed with base /s1 and the
\* prefix gopher://h1 bookmarked: /s1/docs is listed after the menu
C16_Witness ==
    /\ last.cmd = "number" /\ last.res.called /\ ~last.res.local
    /\ last.res.rest = <<"gopher", "://", "h1", "/", "docs">>
    /\ InList(<<"gopher", "://", "h1">>, site_urls)
    /\ last.place0 = <<"/", "s1", "/", "gophermap">>
    /\ base = S1
    /\ stack = << <<"/", "s1", "/", "gophermap">>, <<"/", "s1", "/", "docs">> >>
    /\ pStack = 1

(***************************************************************************)
(* Properties of the classifier and of the Gopher parser.                  *)
(***************************************************************************)
\* link_type has returned
Classified == call.fn = "link_type" /\ ret.done

\* C17 as stated: for every item character and every target, link_type
\* returns local = false if and only if the target begins with letters://.
C17_AnyKind == Classified => (~ret.local <=> IsURL(call.text))

\* C17 amended: for every item character but i and every target, link_type
\* returns local = false if and only if the target begins with letters://;
\* for i it returns local = true.
C17_LocalIffNotURL ==
    Classified => IF call.item = "i" THEN ret.local
                  ELSE ~ret.local <=> IsURL(call.text)

\* a Gemini link to gopher://h1/docs is not local
C17_Witness ==
    /\ Classified /\ call.item = ">"
    /\ call.text = <<"gopher", "://", "h1", "/", "docs">>
    /\ ~ret.local

\* the Gopher parser has returned, or an exception has left it
Parsed == call.fn = "process_gopher_map" /\ ret.done

\* the line has at least 2 fields and begins with a character of gopherItems
Tagged(line) == Len(line) >= 2 /\ line[1] # <<>> /\ line[1][1] \in gopherItems

\* the link of such a line: its item character and the target of its fields
LinkOf(line) ==
    <<line[1][1]>> \o gopher_real_link(line[1][1], <<Tail(line[1])>> \o Tail(line))

\* C18: the links of a Gopher map are as many as its lines that begin with a
\* recognized item character and have at least 2 fields, in file order.
C18_LinkPerTaggedLine ==
    Parsed =>
        LET tagged == SelectSeq(call.lines, Tagged)
        IN  /\ Len(ret.links) = Len(tagged)
            /\ \A j \in 1..Len(tagged) : ret.links[j] = LinkOf(tagged[j])

\* the link of an h line has been built and classified
LinkBuilt == call.fn = "gopher_real_link" /\ ret.done

\* C19: an h line whose selector is URL: followed by an absolute URL gives
\* exactly that URL as the target, and the link is not local, whatever the
\* host and port fields.
C19_UrlSelector ==
    (/\ LinkBuilt /\ call.item = "h"
     /\ StartsWith(call.parts[2], <<"URL:">>)
     /\ IsURL(Drop(call.parts[2], 1)))
        => /\ ret.raised = ""
           /\ ret.target = Drop(call.parts[2], 1)
           /\ ~ret.local

\* URL:https://ex.org on a line with host h1 and port 7070
C19_Witness ==
    /\ LinkBuilt /\ call.item = "h"
    /\ call.parts = << <<"Web">>, <<"URL:", "https", "://", "ex", ".org">>,
                       <<"h1">>, <<"7070">> >>
    /\ ret.target = <<"https", "://", "ex", ".org">>
    /\ ~ret.local

\* C20: no line makes the Gopher parser fail: it emits one display unit for
\* each line of the file and no exception leaves it.
C20_UnitPerLine ==
    Parsed => /\ ret.raised = ""
              /\ Len(ret.units) = Len(call.lines)

\* the Gemini parser has returned
GeminiParsed == call.fn = "process_gemini_map" /\ ret.done

\* the fence-marker lines among the first n lines of the file
MarkersIn(n) == {i \in 1..n : Marked(call.lines[i], fence)}

\* line i is read while fenced: the marker lines before it are odd in number
ReadFenced(i) == Cardinality(MarkersIn(i - 1)) % 2 = 1

\* C21: the fence flag at the end of the file is the parity of its marker
\* lines; a line that is no marker and is read while fenced is shown as
\* preformatted text, to the end of the file if the fence is not closed; and
\* the links are those of the link lines read while not fenced.
C21_FenceParity ==
    GeminiParsed =>
        /\ ret.fenced = (Cardinality(MarkersIn(Len(call.lines))) % 2 = 1)
        /\ Len(ret.units) = Len(call.lines) - Cardinality(MarkersIn(Len(call.lines)))
        /\ \A i \in 1..Len(call.lines) :
              (~Marked(call.lines[i], fence) /\ ReadFenced(i))
                  => ret.units[i - Cardinality(MarkersIn(i))] = "fenced"
        /\ Len(ret.links) =
              Cardinality({i \in 1..Len(call.lines) :
                              /\ ~Marked(call.lines[i], fence)
                              /\ ~ReadFenced(i)
                              /\ Marked(call.lines[i], "=>")})

\* a link line behind a fence that is never closed
C21_Witness ==
    /\ GeminiParsed
    /\ call.lines = << <<"#", " ", "Head">>, <<" ", fence, "alt">>,
                       <<"=>", " ", "page", ".gmi", " ", "Page">> >>
    /\ ret.fenced /\ ret.links = <<>> /\ ret.units = <<"heading", "fenced">>

(***************************************************************************)
(* Properties of the offline walker.                                       *)
(***************************************************************************)
\* C22: the traversal of a site with cycles ends, because each file
\* contributes its links at most once: no file is read for its links a
\* second time, whatever the form of the path that leads back to it.
C22_LinksOnce == offline.again = {}

\* the path of the file with the components f
PathOf(f) == JoinAll(<<sep>>, f, 1)

\* the files a link to the existing path p leads to: the file itself, the
\* map of a directory, or the files listed for a directory without a map
FilesAt(p) ==
    IF IsFile(p) THEN {Canon(p)}
    ELSE IF ~IsDir(p) THEN {}
    ELSE IF IsFile(PathJoin(p, <<"gophermap">>)) THEN {Canon(PathJoin(p, <<"gophermap">>))}
    ELSE {f \in Files : Len(f) = Len(Canon(p)) + 1 /\ SubSeq(f, 1, Len(Canon(p))) = Canon(p)}

\* the files the local links of the file f lead to, as the interactive
\* engine parses, classifies and resolves them in the site with base b
LocalTargets(b, f) ==
    LET place == PathOf(f)
        found == PageLinks(place)
        target(link) ==
            LET rest == Drop(link, 1)
                anchor == IF rest = <<>> \/ rest[1] = sep THEN b ELSE PathDirname(place)
            IN  IF link_type(link[1], rest).local
                THEN FilesAt(PathJoin(anchor, Strip(rest, {sep})))
                ELSE {}
    IN  UNION {target(found[i]) : i \in 1..Len(found)}

\* the files that chains of local links reach from the files seen
RECURSIVE Reachable(_, _)
Reachable(b, seen) ==
    LET more == UNION {LocalTargets(b, f) : f \in seen}
    IN  IF more \subseteq seen THEN seen ELSE Reachable(b, seen \cup more)

\* gopher_hole or gemini_capsule has just returned the files of a site
SiteDone ==
    /\ offline.phase = "walk" /\ offline.frames = <<>>
    /\ offline.next > 1 /\ EntryOf(paths[offline.next - 1]).kind # ""

\* the entry file of that site
EntryFile == Canon(EntryOf(paths[offline.next - 1]).file)

\* C23: when the walker finishes on a root, its visited set is exactly the
\* set of the existing files that chains of local links reach from the
\* entry file, each file once.
C23_VisitedIsReachable ==
    SiteDone =>
        /\ {Canon(f) : f \in offline.files} = Reachable(offline.base, {EntryFile})
        /\ \A f \in offline.files : IsFile(f)
        /\ \A f, g \in offline.files : Canon(f) = Canon(g) => f = g

\* the regular files under the directory d
FilesUnder(d) ==
    {f \in Files : Len(f) > Len(Canon(d)) /\ SubSeq(f, 1, Len(Canon(d))) = Canon(d)}

\* the files of the root given as path that no chain of local links from
\* its entry file reaches
Unreached(path) ==
    LET e == EntryOf(path)
    IN  IF e.kind = "" THEN FilesUnder(path)
        ELSE FilesUnder(e.site) \ Reachable(e.site, {Canon(e.file)})

\* C24: after the traversal the orphans reported are exactly the regular
\* files under each root that no chain of local links from the entry file of
\* that root reaches.
C24_OrphansAreUnreached ==
    offline.phase = "done" =>
        {Canon(f) : f \in offline.orphans}
            = UNION {Unreached(paths[i]) : i \in 1..Len(paths)}

(***************************************************************************)
(* Properties of re-basing and of link construction.                       *)
(***************************************************************************)
\* the step follows a non-local gopher:// or gemini:// link that begins with a
\* bookmarked URL prefix, and its re-basing onto base names no existing path
RebaseOntoBaseFails ==
    /\ last'.res.called /\ ~last'.res.local
    /\ \/ StartsWith(last'.res.rest, <<"gopher", "://">>)
       \/ StartsWith(last'.res.rest, <<"gemini", "://">>)
    /\ \E k \in 1..Len(site_urls) : StartsWith(last'.res.rest, site_urls[k])
    /\ ~Exists(OntoBase)

\* the link with its prefix replaced by the i-th bookmarked root
OntoRoot(i) ==
    LET rest == last'.res.rest
        j == CHOOSE k \in 1..Len(site_urls) : StartsWith(rest, site_urls[k])
    IN  Replace1(rest, site_urls[j], paths[i])

\* the bookmarked roots that give an existing path
Roots == {i \in 1..Len(paths) : Exists(OntoRoot(i))}

\* C25: when re-basing onto base fails, the bookmarked roots are tried in
\* list order and the first that gives an existing path is used: base
\* becomes that root, the history is cleared and the page is loaded from the
\* substituted path.  When no root gives an existing path, base is unchanged,
\* the history is not cleared and the link is opened as a URL, which is
\* committed to the history as every page is.
C25_FirstRoot ==
    [][RebaseOntoBaseFails =>
          IF Roots # {}
          THEN LET i == CHOOSE m \in Roots : \A n \in Roots : m <= n
               IN  /\ base' = paths[i]
                   /\ last'.res.path = OntoRoot(i)
                   /\ last'.page \notin {"", "URL"}
                   /\ last'.commit.stack = <<>> /\ last'.commit.pStack = -1
                   /\ last'.commit.place = OntoRoot(i)
                   /\ stack' = <<OntoRoot(i)>> /\ pStack' = 0
          ELSE /\ base' = base
               /\ last'.page = "URL"
               /\ last'.commit.stack = stack /\ last'.commit.pStack = pStack
               /\ last'.commit.place = last'.res.rest
               /\ CurrentEntry' = last'.res.rest
               /\ Slice(stack', pStack') = Slice(stack, pStack')
      ]_vars

\* the step follows a non-local link that begins with a bookmarked URL prefix
\* and the substitution of the prefix by base or by a bookmarked root names
\* an existing path
Rebasable ==
    /\ last'.res.called /\ ~last'.res.local
    /\ \E k \in 1..Len(site_urls) : StartsWith(last'.res.rest, site_urls[k])
    /\ (Exists(OntoBase) \/ \E i \in 1..Len(paths) : Exists(OntoRoot(i)))

\* the path the substitution gives: onto base, else onto the first root
Substituted ==
    LET onto == OntoBase
        roots == Roots
    IN  IF Exists(onto) THEN onto
        ELSE OntoRoot(CHOOSE m \in roots : \A n \in roots : m <= n)

\* the link is a gopher:// or a gemini:// URL
GopherOrGemini ==
    \/ StartsWith(last'.res.rest, <<"gopher", "://">>)
    \/ StartsWith(last'.res.rest, <<"gemini", "://">>)

\* C26 as stated: whatever its scheme, a non-local link that begins with a
\* bookmarked prefix and whose substitution exists is dispatched to the
\* substituted local path and is not opened as a URL.
C26_AnyScheme ==
    [][Rebasable =>
          /\ last'.page # "URL"
          /\ LET new == Substituted
             IN  /\ last'.res.path = new
                 /\ last'.page # "" => StartsWith(last'.commit.place, new)
      ]_vars

\* the step follows a non-local link that begins with a bookmarked URL prefix
PrefixBookmarked ==
    /\ last'.res.called /\ ~last'.res.local
    /\ \E k \in 1..Len(site_urls) : StartsWith(last'.res.rest, site_urls[k])

\* C26 amended: a non-local link that begins with a bookmarked prefix is
\* dispatched to the substituted local path when it is a gopher:// or a
\* gemini:// URL and the substitution exists, and is opened as a URL only
\* when no substitution exists; a link of another scheme is opened as a URL,
\* base unchanged, whether a substitution exists or not.
C26_GopherGeminiOnly ==
    [][PrefixBookmarked =>
          IF ~GopherOrGemini
          THEN /\ last'.page = "URL"
               /\ last'.commit.place = last'.res.rest
               /\ base' = base
          ELSE IF last'.page = "URL"
          THEN ~Exists(OntoBase) /\ Roots = {}
          ELSE LET new == Substituted
               IN  /\ last'.res.path = new
                   /\ last'.page # "" => StartsWith(last'.commit.place, new)
      ]_vars

\* the link gopher://h1/pics/n.gmi of /s2/page.gmi followed with base /s2 and
\* the root /s1 bookmarked: /s1/pics/n.gmi is loaded
C26_Witness ==
    /\ last.cmd = "number" /\ last.res.called /\ ~last.res.local
    /\ last.res.rest = <<"gopher", "://", "h1", "/", "pics", "/", "n", ".gmi">>
    /\ last.place0 = <<"/", "s2", "/", "page", ".gmi">>
    /\ last.res.path = <<"/", "s1", "/", "pics", "/", "n", ".gmi">>
    /\ last.page # "URL"
    /\ stack = << <<"/", "s1", "/", "pics", "/", "n", ".gmi">> >>
    /\ base = S1

\* the host and port fields of the call, "" when the line has none
HostOf == IF Len(call.parts) < 3 THEN <<>> ELSE Strip(call.parts[3], WS)
PortOf == IF Len(call.parts) < 4 THEN <<>> ELSE Strip(call.parts[4], WS)

\* gopher://host[:port]selector, the port left out when it is 70
RemoteURL(selector) ==
    <<"gopher", "://">> \o HostOf
        \o (IF PortOf = <<"70">> THEN <<>> ELSE <<":">> \o PortOf) \o selector

\* the selector field is URL: on an h line
UrlSelector == call.item = "h" /\ StartsWith(call.parts[2], <<"URL:">>)

FilesIn(d) ==
    {f \in Files : Len(f) = Len(Canon(d)) + 1 /\ SubSeq(f, 1, Len(Canon(d))) = Canon(d)}

\* C28: when a link of a Gopher hole leads to a directory without gophermap,
\* every regular file in that directory is marked visited and none of them
\* is reported as an orphan by the scan.
C28_ListedNotOrphans ==
    offline.phase = "done" =>
        \A d \in offline.listed : \A f \in FilesIn(d) :
            /\ f \in {Canon(v) : v \in {x \in offline.visited_files : IsFile(x)}}
            /\ f \notin {Canon(o) : o \in offline.orphans}

\* the links the interactive parser of the kind of the site has appended
\* after the first n lines
EngineLinks(kind, lines, n) ==
    IF kind = "gopher"
    THEN GopherLoop(Slice(lines, n), [links |-> <<>>, units |-> <<>>, raised |-> ""]).links
    ELSE GeminiLoop(Slice(lines, n), [links |-> <<>>, units |-> <<>>, fenced |-> FALSE]).links

\* the link the walker takes from a line: item and target for a Gopher
\* line, ">" and target for a Gemini line, None when it takes none
WalkerLink(kind, line) ==
    IF kind = "gopher" THEN HoleLink(line)
    ELSE IF CapsuleLink(line) = None THEN None
    ELSE <<">">> \o CapsuleLink(line)

\* the walker ignores the link as external
WalkerExternal(kind, l) ==
    IF kind = "gopher" THEN HoleExternal(l) ELSE CapsuleExternal(Tail(l))

\* the path the link with target name found in the file place stands for:
\* for the walker, and for visit_link with the base of the site
WalkerPath(place, name) ==
    IF name # <<>> /\ name[1] = sep THEN offline.base \o name
    ELSE PathDirname(place) \o <<sep>> \o name
EnginePath(place, rest) ==
    PathJoin(IF rest = <<>> \/ rest[1] = sep THEN offline.base ELSE PathDirname(place),
             Strip(rest, {sep}))

\* C29: on every line of a file it reads, the walker agrees with the
\* interactive engine: it takes a link from the line exactly when the parser
\* appends one, it ignores the link as external exactly when the classifier
\* says non-local, and a local link stands for the same file in both.
C29_SameLinks ==
    offline.step.parsed =>
        LET kind == offline.step.kind
            place == offline.step.fileName
            lines == ReadLines(place)
        IN  \A i \in 1..Len(lines) :
              LET before == EngineLinks(kind, lines, i - 1)
                  after == EngineLinks(kind, lines, i)
                  mine == WalkerLink(kind, lines[i])
                  theirs == after[Len(after)]
              IN  /\ (mine # None) <=> (Len(after) > Len(before))
                  /\ (mine # None /\ Len(after) > Len(before)) =>
                        /\ WalkerExternal(kind, mine)
                              <=> ~link_type(theirs[1], Tail(theirs)).local
                        /\ ~WalkerExternal(kind, mine) =>
                              Canon(WalkerPath(place, Tail(mine)))
                                  = Canon(EnginePath(place, Tail(theirs)))

(***************************************************************************)
(* Properties of the re-dispatch of history entries.                       *)
(***************************************************************************)
\* the handler that records the place p in the history when a visit or a
\* link loads it: its page title
HandlerOf(p) ==
    IF IsURL(p) THEN "URL"
    ELSE IF IsDir(p) THEN "Gopher directory"
    ELSE IF EndsWith(p, "gophermap") THEN "Gopher menu"
    ELSE IF EndsWith(p, ".gmi") \/ EndsWith(p, ".gemini") THEN "Gemini page"
    ELSE IF MimeMajor(MimeType(p)) = "text" THEN "Text file"
    ELSE "Invoke app"

\* the step is a back or a forward that moves the cursor onto another entry
\* of the history
MovesOnto ==
    /\ last'.cmd \in {"back", "forward"}
    /\ stack' = stack /\ pStack' # pStack

\* C30: back and forward re-dispatch the entry they move onto to the handler
\* that loaded it when it was recorded, and the page is loaded again.
C30_SameHandler ==
    [][MovesOnto => (last'.exc = "" /\ last'.page = HandlerOf(CurrentEntry'))]_vars
(***************************************************************************)
(* Properties of the pages that carry no links.                            *)
(***************************************************************************)
\* the banners of process_url, process_text_file and process_external_app
LeafPages == {"URL", "Text file", "Invoke app"}

\* the step follows a link of the link table and opens a URL, a text file or
\* an externally viewed file
OpensLeaf == FollowsLink /\ last'.page \in LeafPages

\* the place such a step opens: the URL itself, or the path of the file
LeafPlace == IF last'.page = "URL" THEN last'.res.rest ELSE last'.res.path

\* the step before was such a step
OpenedLeaf ==
    last.cmd = "number" /\ last.res.called /\ last.page \in LeafPages

\* C31: a followed link that opens a URL, a text file or an externally viewed
\* file is committed like a page load: the place becomes the entry under the
\* cursor, after the entries up to the cursor of before, the forward entries
\* are dropped and the link table is empty; a number that is then passed to
\* the follow-link call is an out-of-range error that changes nothing; and
\* back then restores the page the link was followed from and its links.
C31_LeafCommit ==
    [][/\ OpensLeaf =>
            /\ CurrentEntry' = LeafPlace
            /\ pStack' = Len(stack') - 1
            /\ Slice(stack', pStack') = Slice(stack, pStack + 1)
            /\ links' = <<>>
       /\ (OpenedLeaf /\ last'.cmd = "number" /\ ~TakenAsBookmark) =>
            /\ last'.msgs = <<"Index out of range in current context">>
            /\ Ctx' = Ctx
       /\ (OpenedLeaf /\ last'.cmd = "back") =>
            /\ last'.page \notin {""} \cup LeafPages
            /\ CurrentEntry' = last.place0
            /\ links' = PageLinks(last.place0)
            /\ links' # <<>>
      ]_vars

====
